---- MODULE Spec2Model ----
(***************************************************************************)
(* Clinic nodes (src/clinic_node.py) and the aggregator                    *)
(* (src/aggregator_server.py) as a state machine.                          *)
(*                                                                         *)
(* Units.  Time is counted in ticks of 12 hours (TicksPerDay ticks to a    *)
(* calendar day).  Risk scores are fixed point, in thousandths.  Patient   *)
(* counts and their Laplace noise are whole numbers.  A coordinate is a   *)
(* float given by its sign and its magnitude in 1/10000 of a degree.  A    *)
(* mean is the floor of sum / n in these units.                            *)
(*                                                                         *)
(* Timestamps are the strings the code passes around, modelled by what     *)
(* datetime.fromisoformat makes of them: kind "naive" (parses to a naive   *)
(* datetime at `tick`), "aware" (parses to a datetime with a UTC offset),  *)
(* "bad" (does not parse: ValueError) and "none" (no timestamp given).     *)
(***************************************************************************)
EXTENDS Integers, Sequences, FiniteSets

VARIABLES
    now,               \* datetime.now(), in ticks
    patient_records,   \* ClinicNode.patient_records
    awaiting,          \* node handlers suspended at `await client.post(...)`
    net,               \* POSTs to /receive_data in flight, with their replies
    posts,             \* number of POSTs the node has sent so far
    node_resp,         \* the last response a node endpoint gave its caller
    node_data,         \* Aggregator.node_data
    time_series_data,  \* Aggregator.time_series_data
    agg_pc,            \* what the aggregator's event loop is running
    fitted,            \* the series arima_forecast handed to ARIMA(...)
    agg_resp           \* the last response an aggregator endpoint gave

vars == <<now, patient_records, awaiting, net, posts, node_resp,
          node_data, time_series_data, agg_pc, fitted, agg_resp>>

nodeVars == <<patient_records, awaiting, posts, node_resp>>
aggVars == <<node_data, time_series_data, agg_pc, fitted, agg_resp>>

----------------------------------------------------------------------------
(* Bounds of the model. *)

MaxTick == 1
MaxRecords == 2
MaxPosts == 2
MaxStore == 2
MaxVisits == 3
MaxDays == 31
MaxSymptoms == 4

(* Program constants. *)

TicksPerDay == 2
RecentTicks == 2
WindowTicks == 14
RiskOne == 1000
RiskPerSeverity == 100
HighRiskIncrement == 200
MinHistory == 10
SyntheticPoints == 30
HistoryShown == 14
BaseCount == 50
BaseRisk == 300

----------------------------------------------------------------------------
(* Small helpers. *)

Min(a, b) == IF a < b THEN a ELSE b

Max(a, b) == IF a > b THEN a ELSE b

RECURSIVE SumSeq(_)
SumSeq(s) == IF s = <<>> THEN 0 ELSE Head(s) + SumSeq(Tail(s))

MeanSeq(s) == SumSeq(s) \div Len(s)

----------------------------------------------------------------------------
(* Timestamps. *)

NowIso == [kind |-> "naive", tick |-> now]

Parses(ts) == ts.kind \in {"naive", "aware"}

\* `datetime.fromisoformat(ts) > datetime.now() - timedelta(...)`:
\* "ValueError" when ts does not parse, "TypeError" when an aware datetime
\* meets the naive now, else the comparison.
NewerThan(ts, span) ==
    CASE ts.kind = "bad" -> "ValueError"
      [] ts.kind = "aware" -> "TypeError"
      [] OTHER -> IF ts.tick > now - span THEN "yes" ELSE "no"

AnyRaises(tss, span) ==
    \E i \in 1..Len(tss) : NewerThan(tss[i], span) \in {"ValueError", "TypeError"}

\* datetime.fromisoformat(ts).date().isoformat(): the calendar day.  The key
\* is a zero-padded yyyy-mm-dd string, so string order is day order.
DateKey(ts) == ts.tick \div TicksPerDay

----------------------------------------------------------------------------
(* The node: src/clinic_node.py *)

\* A float coordinate of x / 10000 degrees, as sign and magnitude: -0.0 is a
\* float of its own, [neg |-> TRUE, abs |-> 0].
Deg(x) == [neg |-> x < 0, abs |-> IF x < 0 THEN -x ELSE x]

NodeLocation == [lat |-> Deg(307333), lon |-> Deg(767794)]

\* high_risk_symptoms
HighRiskSymptoms == {"fever", "difficulty breathing", "chest pain", "confusion"}

UpperCase == "ABCDEFGHIJKLMNOPQRSTUVWXYZ"
LowerCase == "abcdefghijklmnopqrstuvwxyz"

\* str.lower() on one character: the ASCII capitals go to their small
\* letters, every other character stays.
LowerMap ==
    [c \in {SubSeq(UpperCase, i, i) : i \in 1..Len(UpperCase)} |->
        LET i == CHOOSE j \in 1..Len(UpperCase) : SubSeq(UpperCase, j, j) = c
        IN  SubSeq(LowerCase, i, i)]

LowerChar(c) == IF c \in DOMAIN LowerMap THEN LowerMap[c] ELSE c

\* symptom.lower()
RECURSIVE Lower(_)
Lower(str) ==
    IF Len(str) = 0 THEN ""
    ELSE LowerChar(SubSeq(str, 1, 1)) \o Lower(SubSeq(str, 2, Len(str)))

\* `sub in str`
Contains(str, sub) ==
    \E i \in 1..(Len(str) - Len(sub) + 1) : SubSeq(str, i, i + Len(sub) - 1) = sub

\* any(hrs in symptom.lower() for hrs in high_risk_symptoms)
IsHighRisk(symptom) ==
    \E hrs \in HighRiskSymptoms : Contains(Lower(symptom), hrs)

RECURSIVE HighRiskMatches(_)
HighRiskMatches(symptoms) ==
    IF symptoms = <<>> THEN 0
    ELSE (IF IsHighRisk(Head(symptoms)) THEN 1 ELSE 0)
         + HighRiskMatches(Tail(symptoms))

\* A variant of calculate_risk_score without the final min(risk, 1.0).
calculate_risk_score_unclamped(record) ==
    record.severity * RiskPerSeverity
      + HighRiskIncrement * HighRiskMatches(record.symptoms)

calculate_risk_score(record) ==
    Min(record.severity * RiskPerSeverity
          + HighRiskIncrement * HighRiskMatches(record.symptoms),
        RiskOne)

\* Variants of apply_differential_privacy with the floor / the clip left out.
apply_differential_privacy_nofloor(data, nc, nr) ==
    [data EXCEPT !.patient_count = data.patient_count + nc,
                 !.avg_risk_score = Max(0, Min(data.avg_risk_score + nr, RiskOne))]

apply_differential_privacy_noclip(data, nc, nr) ==
    [data EXCEPT !.patient_count = Max(0, data.patient_count + nc),
                 !.avg_risk_score = Max(0, data.avg_risk_score + nr)]

apply_differential_privacy(data, nc, nr) ==
    [data EXCEPT !.patient_count = Max(0, data.patient_count + nc),
                 !.avg_risk_score = Max(0, Min(data.avg_risk_score + nr, RiskOne))]

\* sha256 over json.dumps(data, sort_keys=True), taken as injective: the
\* canonical serialisation itself, keys in sorted order.
hash_node_data(data) ==
    <<data.avg_risk_score, data.location.lat, data.location.lon,
      data.patient_count, data.timestamp.kind, data.timestamp.tick>>

IsRecent(r) == NewerThan(r.timestamp, WindowTicks) = "yes"

recent_records(records) == SelectSeq(records, IsRecent)

\* How get_aggregated_data ends on `records`: it raises out of the list
\* comprehension, returns None, or returns the noised aggregate.
BuildOutcome(records) ==
    IF records = <<>> THEN "none"
    ELSE IF AnyRaises([i \in 1..Len(records) |-> records[i].timestamp], WindowTicks)
         THEN "raise"
    ELSE IF recent_records(records) = <<>> THEN "none"
    ELSE "data"

PreNoiseData(records) ==
    LET recent == recent_records(records)
    IN  [patient_count |-> Len(recent),
         avg_risk_score |-> MeanSeq([i \in 1..Len(recent) |-> recent[i].risk_score]),
         location |-> NodeLocation,
         timestamp |-> NowIso]

\* A variant of get_aggregated_data that hashes the noisy values.
get_aggregated_data_hashnoisy(records, nc, nr) ==
    LET data == PreNoiseData(records)
        noisy == apply_differential_privacy(data, nc, nr)
    IN  [patient_count |-> noisy.patient_count,
         avg_risk_score |-> noisy.avg_risk_score,
         location |-> noisy.location,
         timestamp |-> noisy.timestamp,
         data_hash |-> hash_node_data(noisy)]

get_aggregated_data(records, nc, nr) ==
    LET data == PreNoiseData(records)
        noisy == apply_differential_privacy(data, nc, nr)
    IN  [patient_count |-> noisy.patient_count,
         avg_risk_score |-> noisy.avg_risk_score,
         location |-> noisy.location,
         timestamp |-> noisy.timestamp,
         data_hash |-> hash_node_data(data)]

NoBody == [status |-> "none", data_points |-> 0]
ErrorResult == [status |-> "error", data_points |-> 0]
NoDataResult == [status |-> "no_data", data_points |-> 0]

\* A variant of SendToAggregator that detaches the delivery: the POST is
\* sent and the handler answers at once, with no outcome to report.
SendToAggregator_detached(records, h, nc, nr) ==
    CASE BuildOutcome(records) = "raise" ->
            /\ node_resp' = [op |-> h.op, status |-> "error500", risk_score |-> 0,
                             aggregator_response |-> NoBody, rec |-> h.rec]
            /\ UNCHANGED <<awaiting, net, posts>>
      [] BuildOutcome(records) = "none" ->
            /\ node_resp' = [op |-> h.op, status |-> "success",
                             risk_score |-> h.risk_score,
                             aggregator_response |-> NoDataResult, rec |-> h.rec]
            /\ UNCHANGED <<awaiting, net, posts>>
      [] OTHER ->
            /\ posts' = posts + 1
            /\ net' = net \cup {[id |-> posts + 1,
                                 data |-> get_aggregated_data(records, nc, nr),
                                 st |-> "sent", body |-> NoBody]}
            /\ node_resp' = [op |-> h.op, status |-> "success",
                             risk_score |-> h.risk_score,
                             aggregator_response |-> NoBody, rec |-> h.rec]
            /\ UNCHANGED awaiting

\* send_to_aggregator up to its first suspension: nothing to send, an
\* exception out of get_aggregated_data, or the POST is on its way and the
\* handler `h` waits for it.
SendToAggregator(records, h, nc, nr) ==
    CASE BuildOutcome(records) = "raise" ->
            /\ node_resp' = [op |-> h.op, status |-> "error500", risk_score |-> 0,
                             aggregator_response |-> NoBody, rec |-> h.rec]
            /\ UNCHANGED <<awaiting, net, posts>>
      [] BuildOutcome(records) = "none" ->
            /\ node_resp' = [op |-> h.op, status |-> "success",
                             risk_score |-> h.risk_score,
                             aggregator_response |-> NoDataResult, rec |-> h.rec]
            /\ UNCHANGED <<awaiting, net, posts>>
      [] OTHER ->
            /\ posts' = posts + 1
            /\ net' = net \cup {[id |-> posts + 1,
                                 data |-> get_aggregated_data(records, nc, nr),
                                 st |-> "sent", body |-> NoBody]}
            /\ awaiting' = awaiting \cup {[h EXCEPT !.id = posts + 1]}
            /\ UNCHANGED node_resp

\* POST /patient_record
add_patient_record(record, nc, nr) ==
    /\ LET ts == IF record.timestamp.kind = "none" THEN NowIso ELSE record.timestamp
           risk_score == calculate_risk_score(record)
           recs == Append(patient_records,
                          [symptoms |-> record.symptoms, severity |-> record.severity,
                           risk_score |-> risk_score, timestamp |-> ts])
       IN  /\ patient_records' = recs
           /\ SendToAggregator(recs, [id |-> 0, op |-> "patient_record",
                                      risk_score |-> risk_score, rec |-> Len(recs)],
                               nc, nr)
    /\ UNCHANGED <<now, aggVars>>

\* POST /sync
sync_with_aggregator(nc, nr) ==
    /\ SendToAggregator(patient_records,
                        [id |-> 0, op |-> "sync", risk_score |-> 0, rec |-> 0], nc, nr)
    /\ UNCHANGED <<now, patient_records, aggVars>>

\* The handler `h` resumes with `result` from send_to_aggregator and returns.
Complete(h, result) ==
    /\ awaiting' = awaiting \ {h}
    /\ node_resp' = [op |-> h.op, status |-> "success", risk_score |-> h.risk_score,
                     aggregator_response |-> result, rec |-> h.rec]
    /\ UNCHANGED <<now, patient_records, posts, aggVars>>

\* response.json() of the reply: a 500's body is no JSON, which raises inside
\* the try.
ResponseJson(body) == IF body.status = "error500" THEN ErrorResult ELSE body

\* The reply to h's POST arrives.
push_replied(h) ==
    \E m \in net :
        /\ m.id = h.id /\ m.st = "replied"
        /\ net' = net \ {m}
        /\ Complete(h, ResponseJson(m.body))

\* The POST never reaches the aggregator (connection refused, reset).
push_failed(h) ==
    \E m \in net :
        /\ m.id = h.id /\ m.st = "sent"
        /\ net' = net \ {m}
        /\ Complete(h, ErrorResult)

\* timeout=10.0 expires: the handler gives up; a POST that is still queued
\* at the aggregator stays there, a reply on its way is dropped.
push_timeout(h) ==
    \E m \in net :
        /\ m.id = h.id
        /\ net' = IF m.st = "sent" THEN net ELSE net \ {m}
        /\ Complete(h, ErrorResult)

----------------------------------------------------------------------------
(* The aggregator: src/aggregator_server.py *)

Metrics == {"patient_count", "avg_risk_score"}

Idle == [state |-> "idle", metric |-> "", periods |-> 0]

\* self.node_data.append(data_dict), and variants that lose what was stored.
AppendNodeData_replace(nd, data) == <<data>>

AppendNodeData_front(nd, data) == <<data>> \o nd

AppendNodeData(nd, data) == Append(nd, data)

\* self.time_series_data[date_key].append({...}) on the defaultdict, which is
\* kept here as the dict's items in insertion order.
HasKey(tsd, k) == \E i \in 1..Len(tsd) : tsd[i].date = k

AppendTimeSeries(tsd, data) ==
    LET k == DateKey(data.timestamp)
        e == [patient_count |-> data.patient_count,
              avg_risk_score |-> data.avg_risk_score]
    IN  IF HasKey(tsd, k)
        THEN [i \in 1..Len(tsd) |->
                 IF tsd[i].date = k
                 THEN [tsd[i] EXCEPT !.entries = Append(@, e)]
                 ELSE tsd[i]]
        ELSE Append(tsd, [date |-> k, entries |-> <<e>>])

\* add_node_data: the list is appended to before the timestamp is parsed, so
\* a timestamp that does not parse leaves the entry in node_data and raises.
add_node_data_raises(data) == ~Parses(data.timestamp)

\* POST /receive_data for the queued POST m
receive_node_data(m) ==
    /\ agg_pc = Idle
    /\ m \in net /\ m.st = "sent"
    /\ node_data' = AppendNodeData(node_data, m.data)
    /\ time_series_data' = IF add_node_data_raises(m.data) THEN time_series_data
                           ELSE AppendTimeSeries(time_series_data, m.data)
    /\ LET body == IF add_node_data_raises(m.data)
                   THEN [status |-> "error500", data_points |-> 0]
                   ELSE [status |-> "received", data_points |-> Len(node_data')]
       IN  /\ agg_resp' = [op |-> "receive_data", status |-> body.status,
                           data_points |-> body.data_points]
           /\ net' = IF \E h \in awaiting : h.id = m.id
                     THEN (net \ {m}) \cup {[m EXCEPT !.st = "replied", !.body = body]}
                     ELSE net \ {m}
    /\ fitted' = <<>>
    /\ UNCHANGED <<now, nodeVars, agg_pc>>

\* 2^e % 10000
RECURSIVE Pow2Mod(_)
Pow2Mod(e) == IF e = 0 THEN 1 ELSE (2 * Pow2Mod(e - 1)) % 10000

RECURSIVE Log2Up(_, _)
Log2Up(a, t) == IF 2 * t <= a THEN 1 + Log2Up(a, 2 * t) ELSE 0

RECURSIVE Log2Down(_)
Log2Down(a) == IF a >= 10000 THEN 0 ELSE Log2Down(2 * a) - 1

\* floor(log2(a / 10000)), the binary exponent of the float a / 10000, a >= 1
Exponent(a) == IF a >= 10000 THEN Log2Up(a, 10000) ELSE Log2Down(a)

\* The digits of f"{v:.2f}" for the float v nearest to a / 10000, in
\* hundredths.  Off a tie this is the nearest hundredth.  At a tie
\* (a ends in 50) the float decides: it has a 53 bit mantissa, and r tells
\* whether it lies below the decimal (r < 5000: the digits round down),
\* above it (r > 5000: up) or on it (r = 0: half to even).
Round2Abs(a) ==
    LET q == a \div 100
        rem == a % 100
        r == ((a % 10000) * Pow2Mod(52 - Exponent(a))) % 10000
    IN  IF rem < 50 THEN q
        ELSE IF rem > 50 THEN q + 1
        ELSE IF r = 0 THEN (IF q % 2 = 0 THEN q ELSE q + 1)
        ELSE IF r < 5000 THEN q
        ELSE q + 1

\* f"{lat:.2f}", and float(...) of it: sign and hundredths of a degree.  A
\* negative coordinate that rounds to zero prints as "-0.00" and comes back
\* as -0.0.
Round2(c) == [neg |-> c.neg, abs |-> Round2Abs(c.abs)]

\* loc_key: the two formatted coordinates
LocKey(d) == <<Round2(d.location.lat), Round2(d.location.lon)>>

\* A variant of GroupKeys that opens a group for every aggregate.
GroupKeys_nomerge(ds) == [i \in 1..Len(ds) |-> LocKey(ds[i])]

\* The keys of location_groups, in the order the dict got them.
RECURSIVE GroupKeys(_)
GroupKeys(ds) ==
    IF ds = <<>> THEN <<>>
    ELSE LET rest == GroupKeys(SubSeq(ds, 1, Len(ds) - 1))
             k == LocKey(ds[Len(ds)])
         IN  IF \E i \in 1..Len(rest) : rest[i] = k THEN rest ELSE Append(rest, k)

LocationData(recent) ==
    LET keys == GroupKeys(recent)
    IN  [i \in 1..Len(keys) |->
           LET records == SelectSeq(recent, LAMBDA d : LocKey(d) = keys[i])
           IN  [lat |-> keys[i][1], lon |-> keys[i][2],
                patient_count |->
                    SumSeq([j \in 1..Len(records) |-> records[j].patient_count]),
                avg_risk_score |->
                    MeanSeq([j \in 1..Len(records) |-> records[j].avg_risk_score]),
                data_points |-> Len(records)]]

IsRecentData(d) == NewerThan(d.timestamp, RecentTicks) = "yes"

\* get_aggregated_stats on the list nd; kind "raise" is an exception out of
\* the recent_data comprehension.
get_aggregated_stats(nd) ==
    IF nd = <<>> THEN [kind |-> "no_data"]
    ELSE IF AnyRaises([i \in 1..Len(nd) |-> nd[i].timestamp], RecentTicks)
         THEN [kind |-> "raise"]
    ELSE LET recent_data == SelectSeq(nd, IsRecentData)
         IN  IF recent_data = <<>> THEN [kind |-> "no_recent"]
             ELSE [kind |-> "stats",
                   total_patients |->
                       SumSeq([i \in 1..Len(recent_data) |-> recent_data[i].patient_count]),
                   average_risk_score |->
                       MeanSeq([i \in 1..Len(recent_data) |-> recent_data[i].avg_risk_score]),
                   active_locations |-> Len(LocationData(recent_data)),
                   location_data |-> LocationData(recent_data),
                   last_update |-> recent_data[Len(recent_data)].timestamp]

ReadOnly == UNCHANGED <<now, nodeVars, net, node_data, time_series_data, agg_pc>>

\* GET /stats
get_statistics ==
    /\ agg_pc = Idle
    /\ LET stats == get_aggregated_stats(node_data)
       IN  agg_resp' = [op |-> "stats",
                        status |-> IF stats.kind = "raise" THEN "error500" ELSE "ok",
                        stats |-> stats]
    /\ fitted' = <<>>
    /\ ReadOnly

\* GET /map_data
get_map_data ==
    /\ agg_pc = Idle
    /\ LET stats == get_aggregated_stats(node_data)
       IN  agg_resp' = [op |-> "map_data",
                        status |-> IF stats.kind = "raise" THEN "error500" ELSE "ok",
                        location_data |-> IF stats.kind = "stats"
                                          THEN stats.location_data ELSE <<>>]
    /\ fitted' = <<>>
    /\ ReadOnly

\* GET /health
health_check ==
    /\ agg_pc = Idle
    /\ agg_resp' = [op |-> "health", status |-> "healthy",
                    total_data_points |-> Len(node_data),
                    time_series_days |-> Len(time_series_data)]
    /\ fitted' = <<>>
    /\ ReadOnly

RECURSIVE Sorted(_)
Sorted(s) ==
    IF s = <<>> THEN <<>>
    ELSE LET h == Head(s)
             t == Tail(s)
         IN  Sorted(SelectSeq(t, LAMBDA x : x < h)) \o <<h>>
               \o Sorted(SelectSeq(t, LAMBDA x : x >= h))

\* A variant of sorted_dates that walks the dict in insertion order.
sorted_dates_unsorted(tsd) == [i \in 1..Len(tsd) |-> tsd[i].date]

\* sorted(self.time_series_data.keys())
sorted_dates(tsd) == Sorted([i \in 1..Len(tsd) |-> tsd[i].date])

DayData(tsd, date) == (CHOOSE i \in 1..Len(tsd) : tsd[i].date = date)

\* One value a day for the two metrics; for any other name neither branch
\* of the loop appends and the list stays empty.
prepare_time_series(tsd, metric) ==
    LET dates == sorted_dates(tsd)
    IN  IF metric \notin {"patient_count", "avg_risk_score"} THEN <<>>
        ELSE [i \in 1..Len(dates) |->
                LET day_data == tsd[DayData(tsd, dates[i])].entries
                IN  IF metric = "patient_count"
                    THEN SumSeq([j \in 1..Len(day_data) |-> day_data[j].patient_count])
                    ELSE MeanSeq([j \in 1..Len(day_data) |-> day_data[j].avg_risk_score])]

\* np.random.normal(0, base_value * 0.2), 30 times over: the draws, in
\* standard deviations.  The model draws each point one deviation above or
\* below the base, all alike or alternating.
SynthDraws ==
    {[i \in 1..SyntheticPoints |-> a] : a \in {-1, 1}}
      \cup {[i \in 1..SyntheticPoints |-> IF i % 2 = 0 THEN a ELSE -a] : a \in {-1, 1}}

Synthetic(metric, z) ==
    LET base_value == IF metric = "patient_count" THEN BaseCount ELSE BaseRisk
    IN  [i \in 1..SyntheticPoints |-> base_value + z[i] * (base_value \div 5)]

LastN(s, n) == SubSeq(s, Max(1, Len(s) - n + 1), Len(s))

\* A variant of SeriesToFit that tops the real series up to 30 points.
SeriesToFit_topup(tsd, metric, z) ==
    LET real == prepare_time_series(tsd, metric)
    IN  IF Len(real) < MinHistory
        THEN SubSeq(Synthetic(metric, z), 1, SyntheticPoints - Len(real)) \o real
        ELSE real

\* time_series as arima_forecast hands it to ARIMA(...)
SeriesToFit(tsd, metric, z) ==
    LET real == prepare_time_series(tsd, metric)
    IN  IF Len(real) < MinHistory THEN Synthetic(metric, z) \o real ELSE real

\* GET /forecast/{metric}: the handler starts.  An unknown metric is answered
\* at once; otherwise arima_forecast runs on the event loop, which handles no
\* other request until it is done.
get_forecast_begin(metric, periods) ==
    /\ agg_pc = Idle
    /\ IF metric \notin Metrics
       THEN /\ agg_resp' = [op |-> "forecast", status |-> "error400"]
            /\ UNCHANGED agg_pc
       ELSE /\ agg_pc' = [state |-> "fitting", metric |-> metric, periods |-> periods]
            /\ UNCHANGED agg_resp
    /\ fitted' = <<>>
    /\ UNCHANGED <<now, nodeVars, net, node_data, time_series_data>>

\* A variant of get_forecast_end without the except clause: an exception of
\* the fit leaves the handler and the caller gets a 500.
get_forecast_end_uncaught(z, fit_ok) ==
    /\ agg_pc.state = "fitting"
    /\ LET time_series == SeriesToFit(time_series_data, agg_pc.metric, z)
       IN  /\ fitted' = time_series
           /\ agg_resp' =
                IF fit_ok
                THEN [op |-> "forecast", status |-> "ok", metric |-> agg_pc.metric,
                      historical_data |-> LastN(time_series, HistoryShown),
                      forecast_len |-> agg_pc.periods]
                ELSE [op |-> "forecast", status |-> "error500", metric |-> agg_pc.metric]
    /\ agg_pc' = Idle
    /\ UNCHANGED <<now, nodeVars, net, node_data, time_series_data>>

\* arima_forecast is done: the draws were z, and the fit went through or
\* raised, which the except clause turns into the error result.  What
\* statsmodels computes is not modelled: fit_ok is either outcome, and of
\* the forecast only its length is kept.
get_forecast_end(z, fit_ok) ==
    /\ agg_pc.state = "fitting"
    /\ LET time_series == SeriesToFit(time_series_data, agg_pc.metric, z)
       IN  /\ fitted' = time_series
           /\ agg_resp' =
                IF fit_ok
                THEN [op |-> "forecast", status |-> "ok", metric |-> agg_pc.metric,
                      historical_data |-> LastN(time_series, HistoryShown),
                      forecast_len |-> agg_pc.periods]
                ELSE [op |-> "forecast", status |-> "failed", metric |-> agg_pc.metric]
    /\ agg_pc' = Idle
    /\ UNCHANGED <<now, nodeVars, net, node_data, time_series_data>>

----------------------------------------------------------------------------
(* The environment: the clock and the clients. *)

Tick ==
    /\ now < MaxTick
    /\ now' = now + 1
    /\ UNCHANGED <<nodeVars, net, aggVars>>

\* Some other client POSTs `data` to /receive_data; id 0 is awaited by no
\* node handler.
ClientPost(data) ==
    /\ \A m \in net : m.id # 0
    /\ net' = net \cup {[id |-> 0, data |-> data, st |-> "sent", body |-> NoBody]}
    /\ UNCHANGED <<now, nodeVars, aggVars>>

Init ==
    /\ now = 0
    /\ patient_records = <<>>
    /\ awaiting = {}
    /\ net = {}
    /\ posts = 0
    /\ node_resp = [op |-> "none", status |-> "none", risk_score |-> 0,
                    aggregator_response |-> NoBody, rec |-> 0]
    /\ node_data = <<>>
    /\ time_series_data = <<>>
    /\ agg_pc = Idle
    /\ fitted = <<>>
    /\ agg_resp = [op |-> "none", status |-> "none"]

----------------------------------------------------------------------------
(* The node with its callers, and the aggregator taking its POSTs. *)

NoTimestamp == [kind |-> "none", tick |-> 0]

Cough == <<"cough">>

RecordInputs ==
    {[symptoms |-> Cough, severity |-> 5, timestamp |-> NoTimestamp],
     [symptoms |-> <<"High Fever", "Chest Pain">>, severity |-> 11,
      timestamp |-> NoTimestamp],
     [symptoms |-> Cough, severity |-> 5,
      timestamp |-> [kind |-> "naive", tick |-> -15]],
     [symptoms |-> Cough, severity |-> 5,
      timestamp |-> [kind |-> "aware", tick |-> 0]]}

\* The Laplace draws for the count and for the risk of one aggregate.
NoiseDraws == {<<-2, 600>>, <<1, -600>>}

\* What the aggregator end of the connection can send back to the node: the
\* body of add_node_data's answer, or a 500.
ReplyBodies ==
    {[status |-> "received", data_points |-> 1],
     [status |-> "error500", data_points |-> 0]}

\* The aggregator answers the POST m (seen from the node's side only).
aggregator_answers(m, body) ==
    /\ m \in net /\ m.st = "sent"
    /\ net' = IF \E h \in awaiting : h.id = m.id
              THEN (net \ {m}) \cup {[m EXCEPT !.st = "replied", !.body = body]}
              ELSE net \ {m}
    /\ UNCHANGED <<now, nodeVars, aggVars>>

NextNode ==
    \/ /\ Len(patient_records) < MaxRecords /\ posts < MaxPosts
       /\ \E record \in RecordInputs, n \in NoiseDraws :
             add_patient_record(record, n[1], n[2])
    \/ /\ posts < MaxPosts
       /\ \E n \in NoiseDraws : sync_with_aggregator(n[1], n[2])
    \/ \E h \in awaiting : push_replied(h)
    \/ \E h \in awaiting : push_failed(h)
    \/ \E h \in awaiting : push_timeout(h)
    \/ \E m \in net, body \in ReplyBodies : aggregator_answers(m, body)

SpecNode == Init /\ [][NextNode]_vars

----------------------------------------------------------------------------
(* The aggregator with arbitrary clients. *)

Delhi == [lat |-> Deg(287041), lon |-> Deg(771025)]
NearNode == [lat |-> Deg(307301), lon |-> Deg(767812)]

Payload(c, r, loc, ts) ==
    [patient_count |-> c, avg_risk_score |-> r, location |-> loc, timestamp |-> ts,
     data_hash |-> <<0, 0, 0, 0, "naive", 0>>]

ClientPayloads ==
    {Payload(3, 400, NodeLocation, [kind |-> "naive", tick |-> 0]),
     Payload(2, 800, NearNode, [kind |-> "naive", tick |-> -4]),
     Payload(1, 600, Delhi, [kind |-> "aware", tick |-> 0]),
     Payload(4, 200, NodeLocation, [kind |-> "bad", tick |-> 0]),
     Payload(5, 500, Delhi, [kind |-> "naive", tick |-> 1])}

MetricInputs == Metrics \cup {"unknown_metric"}
PeriodInputs == {7}

NextAgg ==
    \/ \E data \in ClientPayloads : ClientPost(data)
    \/ /\ Len(node_data) < MaxStore
       /\ \E m \in net : receive_node_data(m)
    \/ get_statistics
    \/ get_map_data
    \/ health_check
    \/ \E metric \in MetricInputs, periods \in PeriodInputs :
          get_forecast_begin(metric, periods)
    \/ \E z \in SynthDraws, fit_ok \in BOOLEAN : get_forecast_end(z, fit_ok)
    \/ Tick

SpecAgg == Init /\ [][NextAgg]_vars

----------------------------------------------------------------------------
(* End to end: one node, its visits recorded with no timestamp given, and  *)
(* the aggregator it pushes to.                                            *)

Visits ==
    <<[symptoms |-> Cough, severity |-> 2, timestamp |-> NoTimestamp],
      [symptoms |-> <<"fever", "Chest Pain">>, severity |-> 9, timestamp |-> NoTimestamp],
      [symptoms |-> <<"confusion">>, severity |-> 10, timestamp |-> NoTimestamp]>>

\* The visits come in this order, over and over.
NextVisit == Visits[(Len(patient_records) % Len(Visits)) + 1]

NextE2E ==
    \/ /\ Len(patient_records) < MaxVisits
       /\ \E n \in NoiseDraws : add_patient_record(NextVisit, n[1], n[2])
    \/ \E h \in awaiting : push_replied(h)
    \/ \E h \in awaiting : push_failed(h)
    \/ \E h \in awaiting : push_timeout(h)
    \/ \E m \in net : receive_node_data(m)
    \/ get_map_data
    \/ Tick

SpecE2E == Init /\ [][NextE2E]_vars

----------------------------------------------------------------------------
(* Forecasting over a store that was filled on `days` successive days,     *)
(* `per_day` aggregates a day.                                             *)

DailyPayload(d, k) ==
    Payload(3 + ((d + k) % 3), 300 + 100 * ((d + k) % 4), NodeLocation,
            [kind |-> "naive", tick |-> d * TicksPerDay])

DayEntry(data) ==
    [patient_count |-> data.patient_count, avg_risk_score |-> data.avg_risk_score]

\* node_data and time_series_data after add_node_data took DailyPayload(d, k)
\* for d = 0 .. days - 1 and k = 1 .. per_day, in that order.
NodeDataAfter(days, per_day) ==
    [i \in 1..(days * per_day) |->
        DailyPayload((i - 1) \div per_day, ((i - 1) % per_day) + 1)]

TimeSeriesAfter(days, per_day) ==
    [d \in 1..days |->
        [date |-> d - 1,
         entries |-> [k \in 1..per_day |-> DayEntry(DailyPayload(d - 1, k))]]]

InitForecast ==
    \E days \in 0..MaxDays, per_day \in {1, 2} :
        /\ now = days * TicksPerDay
        /\ patient_records = <<>>
        /\ awaiting = {}
        /\ net = {}
        /\ posts = 0
        /\ node_resp = [op |-> "none", status |-> "none", risk_score |-> 0,
                        aggregator_response |-> NoBody, rec |-> 0]
        /\ node_data = NodeDataAfter(days, per_day)
        /\ time_series_data = TimeSeriesAfter(days, per_day)
        /\ agg_pc = Idle
        /\ fitted = <<>>
        /\ agg_resp = [op |-> "none", status |-> "none"]

NextForecast ==
    \/ \E metric \in MetricInputs, periods \in PeriodInputs :
          get_forecast_begin(metric, periods)
    \/ \E z \in SynthDraws, fit_ok \in BOOLEAN : get_forecast_end(z, fit_ok)
    \/ health_check

SpecForecast == InitForecast /\ [][NextForecast]_vars

----------------------------------------------------------------------------
(* Scoring: the first visit on a fresh node, with any severity around the  *)
(* valid range and any list of up to MaxSymptoms symptoms.                 *)

ScoreSymptoms == {"cough", "Chest Pain", "fever and confusion"}

ScoreSeverities == 0..11

SymptomLists == UNION {[1..k -> ScoreSymptoms] : k \in 0..MaxSymptoms}

ScoreInputs ==
    {[symptoms |-> l, severity |-> v, timestamp |-> NoTimestamp] :
        l \in SymptomLists, v \in ScoreSeverities}

NextScore ==
    \/ /\ patient_records = <<>>
       /\ \E record \in ScoreInputs, n \in NoiseDraws :
             add_patient_record(record, n[1], n[2])
    \/ \E h \in awaiting : push_replied(h)
    \/ \E h \in awaiting : push_failed(h)
    \/ \E h \in awaiting : push_timeout(h)
    \/ \E m \in net, body \in ReplyBodies : aggregator_answers(m, body)

SpecScore == Init /\ [][NextScore]_vars

----------------------------------------------------------------------------
(* The claims. *)

\* C1: the aggregate store is append-only.  Whatever the aggregator does
\* (receive_data, also one that ends in an error, stats, forecast, map_data,
\* health), node_data never gets shorter and every entry already stored
\* stays at its position with the same field values.
C1_AppendOnly ==
    [][/\ Len(node_data') >= Len(node_data)
       /\ \A i \in 1..Len(node_data) : node_data'[i] = node_data[i]]_vars

\* Two different aggregates are stored and a read was answered after them.
C1_Witness ==
    /\ Len(node_data) >= 2
    /\ node_data[1] # node_data[2]
    /\ agg_resp.op \in {"stats", "map_data", "health", "forecast"}

\* C2: a record whose severity is outside 1..10 is rejected with no state
\* change, so no such record is ever in the node's local list.
C2_InvalidSeverityRejected ==
    \A i \in 1..Len(patient_records) : patient_records[i].severity \in 1..10

\* C3 as claimed: the request that records a visit does not wait for the
\* delivery, so no /patient_record handler is ever suspended on its POST.
C3_RecordNeverWaitsForPush ==
    \A h \in awaiting : h.op # "patient_record"

PushOutcomes == {"received", "error", "no_data"}

\* C3 as the code has it: /patient_record returns only once the push it
\* triggered has an outcome.  A successful response always carries that
\* outcome (the aggregator's reply, an error, or nothing to send), and a
\* suspended handler returns only with the reply to its own POST or with the
\* error of a failed or timed out POST.
C3_ReturnsAfterPushOutcome ==
    /\ [](node_resp.op = "patient_record" /\ node_resp.status = "success"
            => node_resp.aggregator_response.status \in PushOutcomes)
    /\ [][\A h \in awaiting :
            h \notin awaiting'
              => /\ node_resp'.op = h.op /\ node_resp'.rec = h.rec
                 /\ \/ node_resp'.aggregator_response = ErrorResult
                    \/ \E m \in net :
                          /\ m.id = h.id /\ m.st = "replied"
                          /\ node_resp'.aggregator_response = m.body]_vars

\* A visit was answered with the aggregator's reply to its push.
C3_Witness ==
    /\ node_resp.op = "patient_record"
    /\ node_resp.status = "success"
    /\ node_resp.aggregator_response.status = "received"

ValidRecord(r) ==
    /\ r.severity \in 1..10
    /\ r.timestamp.kind \in {"naive", "aware"}

\* C4: recording a valid record always succeeds: the record is in the local
\* list and the caller gets a success carrying its risk score, whatever
\* becomes of the delivery.
C4_ValidRecordSucceeds ==
    node_resp.op = "patient_record" /\ ValidRecord(patient_records[node_resp.rec])
      => /\ node_resp.status = "success"
         /\ node_resp.risk_score = patient_records[node_resp.rec].risk_score

RealSeries == prepare_time_series(time_series_data, agg_resp.metric)

\* C5: with fewer than min_history real daily points, the historical window
\* of a forecast holds only points of the real series: it is the last
\* min(14, number of real points) of them.
C5_WindowOnlyReal ==
    agg_resp.op = "forecast" /\ agg_resp.status = "ok" /\ Len(RealSeries) < MinHistory
      => agg_resp.historical_data = LastN(RealSeries, HistoryShown)

\* C6 as claimed: the series handed to the fit always has at least 30
\* points, and exactly 30 when the real series has fewer than min_history.
C6_FitHasThirty ==
    fitted # <<>>
      => /\ Len(fitted) >= SyntheticPoints
         /\ Len(RealSeries) < MinHistory => Len(fitted) = SyntheticPoints

\* C6 as the code has it: with fewer than min_history = 10 real points the
\* synthetic prefix has exactly 30 points, so the fitted series has
\* 30 + len(series) of them and ends with the real series; with 10 or more
\* real points nothing is added and the fitted series is the real series,
\* which may well have fewer than 30 points.
C6_FittedLength ==
    fitted # <<>>
      => IF Len(RealSeries) < MinHistory
         THEN /\ Len(fitted) = SyntheticPoints + Len(RealSeries)
              /\ LastN(fitted, Len(RealSeries)) = RealSeries
         ELSE fitted = RealSeries

\* A fit over 30 synthetic points and 3 real ones.
C6_Witness ==
    /\ Len(time_series_data) = 3
    /\ Len(fitted) = SyntheticPoints + 3

\* A fit over 12 real points and nothing else.
C6_WitnessShort ==
    /\ Len(time_series_data) = 12
    /\ Len(fitted) = 12

\* The visits of the end-to-end scenario: all recorded at the node with the
\* time of capture, every one of them pushed and every push taken in by the
\* aggregator within the last 24 hours, nothing still on its way.
AllIngested ==
    /\ Len(patient_records) >= 1
    /\ Len(node_data) = Len(patient_records)
    /\ posts = Len(patient_records)
    /\ net = {} /\ awaiting = {}
    /\ \A i \in 1..Len(node_data) : IsRecentData(node_data[i])

Abs(x) == IF x < 0 THEN -x ELSE x

\* The largest Laplace draw on a count that the model makes.
MaxCountNoise == CHOOSE b \in 0..10 :
    /\ \A n \in NoiseDraws : Abs(n[1]) <= b
    /\ \E n \in NoiseDraws : Abs(n[1]) = b

\* C7 as claimed: after 3 visits and their ingestion, map_data is one
\* location summary with member count 1 and a summed count within the noise
\* of 3.
C7_OneSummaryOnePush ==
    agg_resp.op = "map_data" /\ AllIngested /\ Len(patient_records) = 3
      => /\ Len(agg_resp.location_data) = 1
         /\ agg_resp.location_data[1].data_points = 1
         /\ Abs(agg_resp.location_data[1].patient_count - 3) <= MaxCountNoise

\* C7 as the code has it: every visit triggers a push of its own, whose
\* pre-noise count is the number of visits so far.  After k visits and their
\* ingestion map_data is one location summary, at the node's coordinate
\* rounded to 2 decimals, with member count k and a summed count within k
\* noise draws of 1 + 2 + ... + k (for k = 3: 3 members, 6).
C7_OneSummaryPerVisitPush ==
    agg_resp.op = "map_data" /\ AllIngested
      => LET k == Len(patient_records)
         IN  /\ agg_resp.status = "ok"
             /\ Len(agg_resp.location_data) = 1
             /\ agg_resp.location_data[1].lat = Round2(NodeLocation.lat)
             /\ agg_resp.location_data[1].lon = Round2(NodeLocation.lon)
             /\ agg_resp.location_data[1].data_points = k
             /\ Abs(agg_resp.location_data[1].patient_count - (k * (k + 1)) \div 2)
                  <= k * MaxCountNoise

\* Three visits, three pushes ingested, and map_data answered.
C7_Witness ==
    /\ agg_resp.op = "map_data" /\ AllIngested /\ Len(patient_records) = 3
    /\ agg_resp.location_data[1].data_points = 3

\* C8: every aggregate a node builds has a noisy patient count >= 0 and a
\* noisy average risk within [0, 1].
C8_NoisyValuesInRange ==
    \A m \in net :
        /\ m.data.patient_count >= 0
        /\ m.data.avg_risk_score >= 0
        /\ m.data.avg_risk_score <= RiskOne

\* An aggregate whose count was floored to 0 and whose risk was clipped to 1.
C8_Witness ==
    \E m \in net :
        /\ m.data.data_hash[4] >= 1 /\ m.data.patient_count = 0
        /\ m.data.data_hash[1] < RiskOne /\ m.data.avg_risk_score = RiskOne

StoredDates ==
    {DateKey(node_data[i].timestamp) :
        i \in {j \in 1..Len(node_data) : Parses(node_data[j].timestamp)}}

\* C9: the daily series has one point for each calendar date that has a
\* stored aggregate and none for any other date, its dates ascend, and it
\* never gets shorter.
C9_DailySeries ==
    /\ [](LET dates == sorted_dates(time_series_data)
          IN  /\ \A metric \in Metrics :
                   Len(prepare_time_series(time_series_data, metric)) = Len(dates)
              /\ {dates[i] : i \in 1..Len(dates)} = StoredDates
              /\ Len(dates) = Cardinality(StoredDates)
              /\ \A i \in 1..Len(dates) - 1 : dates[i] < dates[i + 1])
    /\ [][\A metric \in Metrics :
            Len(prepare_time_series(time_series_data', metric))
              >= Len(prepare_time_series(time_series_data, metric))]_vars

\* Two days with a gap between them, the later one stored first.
C9_Witness ==
    /\ Len(time_series_data) = 2
    /\ time_series_data[1].date > time_series_data[2].date + 1
    /\ Len(prepare_time_series(time_series_data, "patient_count")) = 2

\* C10: a forecast in progress does not block ingestion: a POST to
\* /receive_data that has arrived can be taken whatever else the aggregator
\* is doing.
C10_IngestionNotBlocked ==
    \A m \in net : m.st = "sent" => ENABLED receive_node_data(m)

\* C11: a failure inside arima_forecast (building the series, the fit, the
\* intervals) comes back to the caller as the error result, status "failed"
\* standing for {"error": str(e), "message": "ARIMA forecast failed"}, and
\* never as a fault; and from the start of a forecast to its end node_data
\* and time_series_data stay exactly as they were.
C11_ForecastFailureIsResult ==
    /\ [][agg_pc.state = "fitting" /\ agg_pc'.state # "fitting"
            => /\ agg_resp'.op = "forecast"
               /\ agg_resp'.status \in {"ok", "failed"}
               /\ agg_resp'.metric = agg_pc.metric]_vars
    /\ [][agg_pc.state = "fitting" \/ agg_pc'.state = "fitting"
            => /\ node_data' = node_data
               /\ time_series_data' = time_series_data]_vars

\* A forecast over a store that holds aggregates has failed.
C11_Witness ==
    /\ agg_resp.op = "forecast" /\ agg_resp.status = "failed"
    /\ Len(node_data) >= 2
    /\ time_series_data # <<>>
    /\ agg_pc = Idle

\* The aggregates the node sends in this step.
NewlyBuilt == {m \in net' : m \notin net /\ m.st = "sent"}

\* C12: the data_hash of every aggregate a node builds is the hash of the
\* pre-noise {patient_count, avg_risk_score, location, timestamp} and not of
\* the noisy values: it is the same whatever noise is drawn, and two
\* aggregates with the same pre-noise values carry the same hash, also when
\* their noisy values differ.
C12_HashOverPreNoise ==
    /\ [][\A m \in NewlyBuilt :
            /\ m.data.data_hash = hash_node_data(PreNoiseData(patient_records'))
            /\ \A n \in NoiseDraws :
                  get_aggregated_data(patient_records', n[1], n[2]).data_hash
                    = m.data.data_hash]_vars
    /\ [](\A m \in net :
            m.data.data_hash
              = hash_node_data([patient_count |-> m.data.data_hash[4],
                                avg_risk_score |-> m.data.data_hash[1],
                                location |-> m.data.location,
                                timestamp |-> m.data.timestamp]))

\* Two aggregates built from the same pre-noise values with different noise:
\* the same hash on different noisy counts and risks.
C12_Witness ==
    \E m1, m2 \in net :
        /\ m1.data.data_hash = m2.data.data_hash
        /\ m1.data.patient_count # m2.data.patient_count
        /\ m1.data.avg_risk_score # m2.data.avg_risk_score
        /\ m1.data.patient_count # m1.data.data_hash[4]

\* The number of symptoms of r that contain a high-risk term.
HighRiskCount(r) ==
    Cardinality({j \in 1..Len(r.symptoms) : IsHighRisk(r.symptoms[j])})

\* C13: for every severity in 1..10 and every symptom list, the risk score
\* stored with the record and returned to the caller is
\* min(1.0, severity / 10 + 0.2 * number of symptoms with a high-risk term),
\* and it lies in [0, 1].
C13_RiskScoreFormula ==
    \A i \in 1..Len(patient_records) :
        LET r == patient_records[i]
        IN  r.severity \in 1..10
              => /\ r.risk_score
                      = Min(RiskOne, (r.severity * RiskOne) \div 10
                                       + (RiskOne \div 5) * HighRiskCount(r))
                 /\ r.risk_score >= 0 /\ r.risk_score <= RiskOne
                 /\ node_resp.op = "patient_record" /\ node_resp.rec = i
                      /\ node_resp.status = "success"
                      => node_resp.risk_score = r.risk_score

\* A valid severity with four high-risk symptoms: the sum passes 1.0 and the
\* score was clamped; the caller has its answer.
C13_Witness ==
    /\ Len(patient_records) = 1
    /\ patient_records[1].severity \in 1..10
    /\ HighRiskCount(patient_records[1]) >= 4
    /\ patient_records[1].severity * RiskPerSeverity
         + HighRiskIncrement * HighRiskCount(patient_records[1]) > RiskOne
    /\ patient_records[1].risk_score = RiskOne
    /\ node_resp.op = "patient_record" /\ node_resp.risk_score = RiskOne

\* The number of entries in all calendar-day buckets together.
BucketEntries ==
    SumSeq([i \in 1..Len(time_series_data) |-> Len(time_series_data[i].entries)])

\* C14: the arrival-order list and the calendar-day buckets stay consistent
\* after any sequence of pushes, also ones that fail part-way: the buckets
\* hold as many entries as the list, and a push that ends in an error
\* leaves both as they were.
C14_IndexesConsistent ==
    /\ [](BucketEntries = Len(node_data))
    /\ [][agg_resp'.op = "receive_data" /\ agg_resp'.status = "error500"
            => /\ node_data' = node_data
               /\ time_series_data' = time_series_data]_vars

====
